---- MODULE Spec2Model ----
(***************************************************************************)
(* Model of the recipe-generator action handlers (src/actions/index.ts):   *)
(* createRecipeIdeaSession, updateRecipeIdeaSession,                       *)
(* listRecipeIdeaSessions, upsertGeneratedRecipe, listGeneratedRecipes,    *)
(* over the four tables of the schema.                                     *)
(*                                                                         *)
(* JavaScript objects (action inputs, update patches) are functions whose  *)
(* DOMAIN is the set of keys that are present; a table is the set of its   *)
(* rows; a row is a record with every column, a NULL column holding Null.  *)
(* Strings are strings ("" is the empty string), identifiers included.     *)
(* Payload values the handlers only copy are opaque tokens.                *)
(***************************************************************************)
EXTENDS Integers, Sequences, FiniteSets, TLC

VARIABLES
    sessions,             \* table RecipeIdeaSessions
    recipes,              \* table GeneratedRecipes
    ingredients,          \* table GeneratedRecipeIngredients
    steps,                \* table GeneratedRecipeSteps
    nextId,               \* number of identifiers randomUUID() has returned
    clock,                \* the time the last new Date() returned
    resp,                 \* the last completed request and its response
    inflight,             \* the request suspended at an await (stepwise runs)
    storeSkipsUndefined,  \* whether update().set() ignores undefined values
    fkEnforced            \* whether the store enforces the declared references

vars == <<sessions, recipes, ingredients, steps, nextId, clock, resp, inflight,
          storeSkipsUndefined, fkEnforced>>

tables == <<sessions, recipes, ingredients, steps>>

\* ------------------------------------------------------------- bounds

MaxUUIDs == 3
MaxSessions == 2
MaxRecipes == 2
MaxClock == 1
MaxPage == 2

\* ------------------------------------------------------------- values

Undefined == "undefined"
Null == "null"
EmptyString == ""
Users == {"u1", "u2"}

\* randomUUID(): the n-th identifier returned; never the empty string and
\* never one returned before.
randomUUID(n) == ToString(n)

\* An identifier no randomUUID() call returns.
UnknownId == "x"

\* JavaScript truthiness of an optional string: `if (v)`.
Truthy(v) == v # Undefined /\ v # EmptyString

Has(o, k) == k \in DOMAIN o

\* o.k, undefined when the key is absent (string-valued keys only).
Get(o, k) == IF Has(o, k) THEN o[k] ELSE Undefined

\* A column value for an inserted optional text/number field.
Column(o, k) == IF Has(o, k) THEN o[k] ELSE Null

\* ------------------------------------------------------------- requests

NoRequest == [op |-> "none"]
Idle == [pc |-> "idle"]

Contexts == {[user |-> u] : u \in Users \cup {Undefined}}

\* A requireUser that never throws (a faulty variant, to test C8 against).
requireUserNoCheck(context) == TRUE

\* requireUser: TRUE when it returns the user, FALSE when it throws.
requireUser(context) == context.user # Undefined

Success(op, context, input, data) ==
    [op |-> op, user |-> context.user, input |-> input, code |-> "OK",
     data |-> data]

Failure(op, context, input, code) ==
    [op |-> op, user |-> context.user, input |-> input, code |-> code]

\* ------------------------------------------------------------- store

\* select().from(T).where(and(eq(T.id, id), eq(T.userId, userId)))
SelectOwned(T, id, userId) == {r \in T : r.id = id /\ r.userId = userId}

\* update(T).set(patch) on one row: the columns the patch names take its
\* values; a key whose value is undefined is skipped or written as NULL,
\* as the store decides.
NullableColumns ==
    {"title", "prompt", "cuisinePreference", "dietaryPreference",
     "servingCount", "description", "cuisine", "mealType", "tags",
     "servings", "prepTimeMinutes", "cookTimeMinutes", "notes"}

SetColumn(row, patch, k) ==
    IF ~Has(patch, k) THEN row[k]
    ELSE IF k \in NullableColumns /\ patch[k] = Undefined
         THEN (IF storeSkipsUndefined THEN row[k] ELSE Null)
         ELSE patch[k]

ApplySet(row, patch) == [k \in DOMAIN row |-> SetColumn(row, patch, k)]

\* update(T).set(patch).where(and(eq(T.id, id), eq(T.userId, userId)))
UpdateOwned(T, id, userId, patch) ==
    {IF r.id = id /\ r.userId = userId THEN ApplySet(r, patch) ELSE r : r \in T}

\* The sequences a select ... orderBy(createdAt) may return: every row once,
\* creation times ascending, rows of equal time in any order.
OrderedByCreatedAt(rows) ==
    {q \in [1..Cardinality(rows) -> rows] :
        /\ \A i, j \in DOMAIN q : i # j => q[i] # q[j]
        /\ \A i, j \in DOMAIN q : i < j => q[i].createdAt <= q[j].createdAt}

\* .limit(pageSize).offset(offset)
LimitOffset(q, pageSize, offset) ==
    [i \in 1..(IF Len(q) - offset < 0 THEN 0
               ELSE IF Len(q) - offset < pageSize THEN Len(q) - offset
               ELSE pageSize) |-> q[offset + i]]

\* ------------------------------------------------------------- sessions

SessionFields ==
    {"title", "prompt", "cuisinePreference", "dietaryPreference", "servingCount"}

NewSessionRow(id, userId, input, now) ==
    [id |-> id, userId |-> userId,
     title |-> Column(input, "title"),
     prompt |-> Column(input, "prompt"),
     cuisinePreference |-> Column(input, "cuisinePreference"),
     dietaryPreference |-> Column(input, "dietaryPreference"),
     servingCount |-> Column(input, "servingCount"),
     createdAt |-> now, updatedAt |-> now]

createRecipeIdeaSession(context, input, now) ==
    /\ nextId < MaxUUIDs
    /\ Cardinality(sessions) < MaxSessions
    /\ IF ~requireUser(context)
       THEN /\ resp' = Failure("createRecipeIdeaSession", context, input,
                               "UNAUTHORIZED")
            /\ UNCHANGED <<tables, nextId, clock>>
       ELSE LET id == randomUUID(nextId + 1)
            IN /\ sessions' = sessions \cup
                       {NewSessionRow(id, context.user, input, now)}
               /\ nextId' = nextId + 1
               /\ clock' = now
               /\ resp' = Success("createRecipeIdeaSession", context, input,
                                  [id |-> id])
               /\ UNCHANGED <<recipes, ingredients, steps>>
    /\ UNCHANGED <<inflight, storeSkipsUndefined, fkEnforced>>

\* A patch that assigns every field, present or not (a faulty variant, to
\* test C6 against).
SessionUpdateDataAll(input, now) ==
    [k \in SessionFields \cup {"updatedAt"} |->
        IF k = "updatedAt" THEN now ELSE Get(input, k)]

\* The patch of updateRecipeIdeaSession: updatedAt, and each field that is
\* present in the input.
SessionUpdateData(input, now) ==
    [k \in {f \in SessionFields : Has(input, f)} \cup {"updatedAt"} |->
        IF k = "updatedAt" THEN now ELSE input[k]]

\* A lookup by id alone (a faulty variant, to test C4 against).
SessionLookupAnyOwner(id, userId) == {r \in sessions : r.id = id}

\* The existence check of updateRecipeIdeaSession (lines 86-101).
SessionLookup(id, userId) == SelectOwned(sessions, id, userId)

updateRecipeIdeaSession(context, input, now) ==
    /\ IF ~requireUser(context)
       THEN /\ resp' = Failure("updateRecipeIdeaSession", context, input,
                               "UNAUTHORIZED")
            /\ UNCHANGED <<tables, clock>>
       ELSE IF SessionLookup(input.id, context.user) = {}
       THEN /\ resp' = Failure("updateRecipeIdeaSession", context, input,
                               "NOT_FOUND")
            /\ clock' = now
            /\ UNCHANGED tables
       ELSE /\ sessions' = UpdateOwned(sessions, input.id, context.user,
                                       SessionUpdateData(input, now))
            /\ clock' = now
            /\ resp' = Success("updateRecipeIdeaSession", context, input,
                               [id |-> input.id])
            /\ UNCHANGED <<recipes, ingredients, steps>>
    /\ UNCHANGED <<nextId, inflight, storeSkipsUndefined, fkEnforced>>

\* A select without its where clause (a faulty variant, to test C1 against).
SessionListFilterNone(userId) == sessions

\* The where clause of listRecipeIdeaSessions.
SessionListFilter(userId) == {r \in sessions : r.userId = userId}

\* The item sequences the select of listRecipeIdeaSessions may return.
SessionPage(userId, input) ==
    {LimitOffset(q, input.pageSize, (input.page - 1) * input.pageSize) :
        q \in OrderedByCreatedAt(SessionListFilter(userId))}

listRecipeIdeaSessions(context, input) ==
    /\ IF ~requireUser(context)
       THEN resp' = Failure("listRecipeIdeaSessions", context, input,
                            "UNAUTHORIZED")
       ELSE \E items \in SessionPage(context.user, input) :
                resp' = Success("listRecipeIdeaSessions", context, input,
                                [items |-> items, total |-> Len(items),
                                 page |-> input.page,
                                 pageSize |-> input.pageSize])
    /\ UNCHANGED <<tables, nextId, clock, inflight, storeSkipsUndefined,
                   fkEnforced>>

\* ------------------------------------------------------------- recipes

\* The fields upsertGeneratedRecipe re-sets on every update besides title.
RecipeFields ==
    {"description", "cuisine", "mealType", "tags", "servings",
     "prepTimeMinutes", "cookTimeMinutes", "notes"}

Store ==
    [sessions |-> sessions, recipes |-> recipes, ingredients |-> ingredients,
     steps |-> steps, nextId |-> nextId]

\* insert(T).values(q) is refused when an id of q is already in T or occurs
\* twice in q (primary key).
PkConflict(T, q) ==
    \/ \E i \in DOMAIN q : \E t \in T : t.id = q[i].id
    \/ \E i, j \in DOMAIN q : i # j /\ q[i].id = q[j].id

\* A write of sessionId is refused when the reference is enforced and names
\* no session row.
FkViolation(st, sessionId) ==
    /\ fkEnforced
    /\ sessionId # Null
    /\ \A s \in st.sessions : s.id # sessionId

Rows(q) == {q[i] : i \in DOMAIN q}

\* The request frame of one upsertGeneratedRecipe call: its locals and the
\* awaited statement it is suspended at.
NewFrame(context, input, now) ==
    [pc |-> "begin", context |-> context, input |-> input, now |-> now,
     recipeId |-> Undefined, pending |-> <<>>, deleted |-> {},
     resp |-> NoRequest]

Out(f, st) == [f |-> f, st |-> st]

Finish(f, response) == [f EXCEPT !.pc = "done", !.resp = response]

Throw(f, st, code) ==
    Out(Finish(f, Failure("upsertGeneratedRecipe", f.context, f.input, code)), st)

ReturnRecipe(f, st) ==
    Out(Finish(f, Success("upsertGeneratedRecipe", f.context, f.input,
                          [id |-> f.recipeId])), st)

\* A patch that always assigns sessionId, NULL when the input has none (a
\* faulty variant, to test C9 against).
RecipeUpdateDataSessionAlways(input, now) ==
    [k \in RecipeFields \cup {"updatedAt", "title", "sessionId"}
           \cup (IF Has(input, "isFavorite") THEN {"isFavorite"} ELSE {}) |->
        IF k = "updatedAt" THEN now
        ELSE IF k = "isFavorite" THEN input.isFavorite
        ELSE IF k = "sessionId" /\ ~Has(input, k) THEN Null
        ELSE Get(input, k)]

\* The patch of the update path (lines 222-236).
RecipeUpdateData(input, now) ==
    [k \in RecipeFields \cup {"updatedAt", "title"}
           \cup (IF Has(input, "sessionId") THEN {"sessionId"} ELSE {})
           \cup (IF Has(input, "isFavorite") THEN {"isFavorite"} ELSE {}) |->
        IF k = "updatedAt" THEN now
        ELSE IF k = "isFavorite" THEN input.isFavorite
        ELSE Get(input, k)]

\* The row of the create path (lines 248-264).
NewRecipeRow(id, userId, input, now) ==
    [id |-> id,
     sessionId |-> Column(input, "sessionId"),
     userId |-> userId,
     title |-> input.title,
     description |-> Column(input, "description"),
     cuisine |-> Column(input, "cuisine"),
     mealType |-> Column(input, "mealType"),
     tags |-> Column(input, "tags"),
     servings |-> Column(input, "servings"),
     prepTimeMinutes |-> Column(input, "prepTimeMinutes"),
     cookTimeMinutes |-> Column(input, "cookTimeMinutes"),
     notes |-> Column(input, "notes"),
     isFavorite |-> IF Has(input, "isFavorite") THEN input.isFavorite ELSE FALSE,
     createdAt |-> now, updatedAt |-> now]

\* How many of arr[1..i] carry no id: each takes one randomUUID().
Generated(arr, i) == Cardinality({j \in 1..i : ~Has(arr[j], "id")})

ChildId(arr, i, base) ==
    IF Has(arr[i], "id") THEN arr[i].id ELSE randomUUID(base + Generated(arr, i))

\* input.ingredients.map(...) (lines 274-282)
IngredientRows(arr, recipeId, now, base) ==
    [i \in DOMAIN arr |->
        [id |-> ChildId(arr, i, base), recipeId |-> recipeId,
         orderIndex |-> Column(arr[i], "orderIndex"),
         name |-> arr[i].name,
         quantity |-> Column(arr[i], "quantity"),
         notes |-> Column(arr[i], "notes"),
         createdAt |-> now]]

\* input.steps.map(...) (lines 294-301)
StepRows(arr, recipeId, now, base) ==
    [i \in DOMAIN arr |->
        [id |-> ChildId(arr, i, base), recipeId |-> recipeId,
         orderIndex |-> arr[i].orderIndex,
         instruction |-> arr[i].instruction,
         tip |-> Column(arr[i], "tip"),
         createdAt |-> now]]

\* A delete without its where clause, and a delete that removes nothing
\* (faulty variants, to test C5 and C10 against).
DeleteChildrenAll(T, recipeId) == {}

DeleteChildrenNone(T, recipeId) == T

\* delete(T).where(eq(T.recipeId, recipeId))
DeleteChildren(T, recipeId) == {r \in T : r.recipeId # recipeId}

\* After the steps block: the return (lines 306-309).
AfterSteps(f, st) == ReturnRecipe(f, st)

\* `if (input.steps)` (line 287)
AfterIngredients(f, st) ==
    IF Has(f.input, "steps")
    THEN Out([f EXCEPT !.pc = "deleteSteps"], st)
    ELSE AfterSteps(f, st)

\* `if (input.ingredients)` (line 267)
AfterRecipeWrite(f, st) ==
    IF Has(f.input, "ingredients")
    THEN Out([f EXCEPT !.pc = "deleteIngredients"], st)
    ELSE AfterIngredients(f, st)

\* `input.id ?? randomUUID()` and `if (input.id)` (lines 202-204)
UpdatePath(input) == Truthy(Get(input, "id"))

AfterSessionCheck(f, st) ==
    LET fresh == ~Has(f.input, "id")
        g == [f EXCEPT !.recipeId = IF fresh THEN randomUUID(st.nextId + 1)
                                    ELSE f.input.id,
                       !.pc = IF UpdatePath(f.input) THEN "selectRecipe"
                              ELSE "insertRecipe"]
    IN Out(g, IF fresh THEN [st EXCEPT !.nextId = st.nextId + 1] ELSE st)

\* `if (input.sessionId)` (line 183)
SessionChecked(input) == Truthy(Get(input, "sessionId"))

\* One awaited statement of upsertGeneratedRecipe and the synchronous code
\* after it, up to the next await or the end of the handler.
UpsertStep(f, st) ==
    LET input == f.input
        userId == f.context.user
    IN CASE f.pc = "begin" ->
            IF ~requireUser(f.context) THEN Throw(f, st, "UNAUTHORIZED")
            ELSE IF SessionChecked(input)
            THEN Out([f EXCEPT !.pc = "selectSession"], st)
            ELSE AfterSessionCheck(f, st)
         [] f.pc = "selectSession" ->
            IF SelectOwned(st.sessions, input.sessionId, userId) = {}
            THEN Throw(f, st, "NOT_FOUND")
            ELSE AfterSessionCheck(f, st)
         [] f.pc = "selectRecipe" ->
            IF SelectOwned(st.recipes, input.id, userId) = {}
            THEN Throw(f, st, "NOT_FOUND")
            ELSE Out([f EXCEPT !.pc = "updateRecipe"], st)
         [] f.pc = "updateRecipe" ->
            LET updateData == RecipeUpdateData(input, f.now)
            IN IF Has(updateData, "sessionId")
                  /\ FkViolation(st, updateData.sessionId)
                  /\ SelectOwned(st.recipes, f.recipeId, userId) # {}
               THEN Throw(f, st, "INTERNAL_SERVER_ERROR")
               ELSE AfterRecipeWrite(f,
                        [st EXCEPT !.recipes =
                            UpdateOwned(st.recipes, f.recipeId, userId, updateData)])
         [] f.pc = "insertRecipe" ->
            LET row == NewRecipeRow(f.recipeId, userId, input, f.now)
            IN IF PkConflict(st.recipes, <<row>>) \/ FkViolation(st, row.sessionId)
               THEN Throw(f, st, "INTERNAL_SERVER_ERROR")
               ELSE AfterRecipeWrite(f,
                        [st EXCEPT !.recipes = st.recipes \cup {row}])
         [] f.pc = "deleteIngredients" ->
            LET arr == input.ingredients
                del == [st EXCEPT !.ingredients =
                            DeleteChildren(st.ingredients, f.recipeId)]
            IN IF Len(arr) > 0
               THEN Out([f EXCEPT !.pc = "insertIngredients",
                                  !.deleted = st.ingredients \ del.ingredients,
                                  !.pending = IngredientRows(arr, f.recipeId,
                                                  f.now, st.nextId)],
                        [del EXCEPT !.nextId = st.nextId + Generated(arr, Len(arr))])
               ELSE AfterIngredients(f, del)
         [] f.pc = "insertIngredients" ->
            IF PkConflict(st.ingredients, f.pending)
            THEN Throw(f, st, "INTERNAL_SERVER_ERROR")
            ELSE AfterIngredients([f EXCEPT !.pending = <<>>],
                     [st EXCEPT !.ingredients = st.ingredients \cup Rows(f.pending)])
         [] f.pc = "deleteSteps" ->
            LET arr == input.steps
                del == [st EXCEPT !.steps = DeleteChildren(st.steps, f.recipeId)]
            IN IF Len(arr) > 0
               THEN Out([f EXCEPT !.pc = "insertSteps",
                                  !.deleted = st.steps \ del.steps,
                                  !.pending = StepRows(arr, f.recipeId, f.now,
                                                       st.nextId)],
                        [del EXCEPT !.nextId = st.nextId + Generated(arr, Len(arr))])
               ELSE AfterSteps(f, del)
         [] f.pc = "insertSteps" ->
            IF PkConflict(st.steps, f.pending)
            THEN Throw(f, st, "INTERNAL_SERVER_ERROR")
            ELSE AfterSteps([f EXCEPT !.pending = <<>>],
                     [st EXCEPT !.steps = st.steps \cup Rows(f.pending)])

\* The handler run from a frame to its end with nothing in between.
RECURSIVE Run(_, _)
Run(f, st) ==
    IF f.pc = "done" THEN Out(f, st)
    ELSE LET n == UpsertStep(f, st) IN Run(n.f, n.st)

\* The identifiers one call may take from randomUUID().
UuidsNeeded(input) ==
    (IF Has(input, "id") THEN 0 ELSE 1)
    + (IF Has(input, "ingredients")
       THEN Generated(input.ingredients, Len(input.ingredients)) ELSE 0)
    + (IF Has(input, "steps")
       THEN Generated(input.steps, Len(input.steps)) ELSE 0)

Commit(st) ==
    /\ sessions' = st.sessions
    /\ recipes' = st.recipes
    /\ ingredients' = st.ingredients
    /\ steps' = st.steps
    /\ nextId' = st.nextId

upsertGeneratedRecipe(context, input, now) ==
    /\ nextId + UuidsNeeded(input) <= MaxUUIDs
    /\ Cardinality(recipes) < MaxRecipes \/ Has(input, "id")
    /\ LET r == Run(NewFrame(context, input, now), Store)
       IN /\ Commit(r.st)
          /\ resp' = r.f.resp
          /\ clock' = IF requireUser(context) THEN now ELSE clock
    /\ UNCHANGED <<inflight, storeSkipsUndefined, fkEnforced>>

\* The where clause of listGeneratedRecipes (lines 324-332).
SessionFilter(input) == Truthy(Get(input, "sessionId"))

FavoritesFilter(input) == Has(input, "favoritesOnly") /\ input.favoritesOnly

RecipeListFilter(userId, input) ==
    {r \in recipes :
        /\ r.userId = userId
        /\ SessionFilter(input) => r.sessionId = input.sessionId
        /\ FavoritesFilter(input) => r.isFavorite = TRUE}

\* The item sequences the select of listGeneratedRecipes may return.
RecipePage(userId, input) ==
    {LimitOffset(q, input.pageSize, (input.page - 1) * input.pageSize) :
        q \in OrderedByCreatedAt(RecipeListFilter(userId, input))}

listGeneratedRecipes(context, input) ==
    /\ IF ~requireUser(context)
       THEN resp' = Failure("listGeneratedRecipes", context, input,
                            "UNAUTHORIZED")
       ELSE \E items \in RecipePage(context.user, input) :
                resp' = Success("listGeneratedRecipes", context, input,
                                [items |-> items, total |-> Len(items),
                                 page |-> input.page,
                                 pageSize |-> input.pageSize])
    /\ UNCHANGED <<tables, nextId, clock, inflight, storeSkipsUndefined,
                   fkEnforced>>

\* ------------------------------------------------------------- awaits

\* upsertGeneratedRecipe up to its first await.
UpsertBegin(context, input, now) ==
    /\ inflight = Idle
    /\ nextId + UuidsNeeded(input) <= MaxUUIDs
    /\ Cardinality(recipes) < MaxRecipes \/ Has(input, "id")
    /\ LET n == UpsertStep(NewFrame(context, input, now), Store)
       IN /\ Commit(n.st)
          /\ IF n.f.pc = "done"
             THEN resp' = n.f.resp /\ inflight' = Idle
             ELSE resp' = NoRequest /\ inflight' = n.f
          /\ clock' = IF requireUser(context) THEN now ELSE clock
    /\ UNCHANGED <<storeSkipsUndefined, fkEnforced>>

\* The suspended call resumes: its awaited statement runs against the store
\* as it is now.
UpsertAwait ==
    /\ inflight # Idle
    /\ LET n == UpsertStep(inflight, Store)
       IN /\ Commit(n.st)
          /\ IF n.f.pc = "done"
             THEN resp' = n.f.resp /\ inflight' = Idle
             ELSE resp' = NoRequest /\ inflight' = n.f
    /\ UNCHANGED <<clock, storeSkipsUndefined, fkEnforced>>

\* The process serving the suspended call fails: the call never resumes and
\* nothing it wrote is undone.
UpsertAbort ==
    /\ inflight # Idle
    /\ inflight' = Idle
    /\ resp' = Failure("upsertGeneratedRecipe", inflight.context,
                       inflight.input, "ABORTED")
    /\ UNCHANGED <<tables, nextId, clock, storeSkipsUndefined, fkEnforced>>

\* ------------------------------------------------------------- inputs

EmptyObject == <<>>

\* The values new Date() may return: the time does not go back.
Nows == {t \in {clock, clock + 1} : t <= MaxClock}

\* The identifiers a client may send for a row of table T: one of T's, the
\* empty string, or one that names nothing.
IdChoices(T) == {r.id : r \in T} \cup {EmptyString, UnknownId}

Optional(k, V) == {EmptyObject} \cup {[x \in {k} |-> v] : v \in V}

PageInputs ==
    {[page |-> p, pageSize |-> n] : p \in 1..MaxPage, n \in 1..MaxPage}

\* The empty store; the two properties of the store the source does not fix
\* are drawn from `skips` and `enforces`.
InitStore(skips, enforces) ==
    /\ sessions = {}
    /\ recipes = {}
    /\ ingredients = {}
    /\ steps = {}
    /\ nextId = 0
    /\ clock = 0
    /\ resp = NoRequest
    /\ inflight = Idle
    /\ storeSkipsUndefined \in skips
    /\ fkEnforced \in enforces

Init == InitStore(BOOLEAN, BOOLEAN)

\* Requests of signed-in users only.
SignedIn == {c \in Contexts : c.user # Undefined}

\* --- Spec: the five handlers, each run to completion, small payloads

SessionCreateInputs == {[title |-> "a"]}

SessionUpdateInputs ==
    {[id |-> i, title |-> "b"] : i \in {r.id : r \in sessions} \cup {UnknownId}}

UpsertInputs ==
    {[title |-> "t"] @@ i : i \in Optional("id", {r.id : r \in recipes})}

Next ==
    \/ \E c \in Contexts, i \in SessionCreateInputs :
           createRecipeIdeaSession(c, i, clock)
    \/ \E c \in Contexts, i \in SessionUpdateInputs :
           updateRecipeIdeaSession(c, i, clock)
    \/ \E c \in Contexts, i \in PageInputs :
           listRecipeIdeaSessions(c, i)
    \/ \E c \in Contexts, i \in UpsertInputs :
           upsertGeneratedRecipe(c, i, clock)
    \/ \E c \in Contexts, i \in PageInputs :
           listGeneratedRecipes(c, i)

Spec == Init /\ [][Next]_vars

\* --- SpecSession: the session writes, the fields of the input varying

FieldSets == {{}, {"title"}, SessionFields}

SessionCreateFieldInputs == {[k \in D |-> "a"] : D \in {{}, SessionFields}}

SessionUpdateFieldInputs ==
    {[id |-> i] @@ [k \in D |-> "b"] :
        i \in {r.id : r \in sessions} \cup {UnknownId}, D \in FieldSets}

NextSession ==
    \/ \E c \in SignedIn, i \in SessionCreateFieldInputs, now \in Nows :
           createRecipeIdeaSession(c, i, now)
    \/ \E c \in SignedIn, i \in SessionUpdateFieldInputs, now \in Nows :
           updateRecipeIdeaSession(c, i, now)

SpecSession == Init /\ [][NextSession]_vars

\* --- SpecReference: the identifiers an upsert carries
\* (the optional columns stay NULL here: what set() does with undefined
\* makes no difference)

ChildInputs ==
    {EmptyObject,
     [ingredients |-> <<[name |-> "n"]>>,
      steps |-> <<[orderIndex |-> 1, instruction |-> "s"]>>]}

UpsertReferenceInputs ==
    {[title |-> "t"] @@ i @@ s @@ ch :
        i \in Optional("id", IdChoices(recipes)),
        s \in Optional("sessionId", IdChoices(sessions)),
        ch \in ChildInputs}

NextReference ==
    \/ \E c \in SignedIn, i \in SessionCreateInputs :
           createRecipeIdeaSession(c, i, clock)
    \/ \E c \in SignedIn, i \in UpsertReferenceInputs :
           upsertGeneratedRecipe(c, i, clock)

SpecReference == InitStore({TRUE}, BOOLEAN) /\ [][NextReference]_vars

\* --- SpecList: the recipe list and its filters, over one session
\* (no request here updates a row)

UpsertListInputs ==
    {[title |-> "t"] @@ s @@ fav :
        s \in Optional("sessionId", {r.id : r \in sessions} \cup {EmptyString}),
        fav \in Optional("isFavorite", {TRUE})}

RecipeListFilterInputs ==
    {pg @@ s @@ fav :
        pg \in PageInputs,
        s \in Optional("sessionId", {r.id : r \in sessions} \cup {EmptyString}),
        fav \in Optional("favoritesOnly", {TRUE})}

NextList ==
    \/ \E c \in SignedIn, i \in SessionCreateInputs :
           /\ sessions = {}
           /\ createRecipeIdeaSession(c, i, clock)
    \/ \E c \in SignedIn, i \in UpsertListInputs, now \in Nows :
           upsertGeneratedRecipe(c, i, now)
    \/ \E c \in SignedIn, i \in RecipeListFilterInputs :
           listGeneratedRecipes(c, i)

SpecList == InitStore({TRUE}, BOOLEAN) /\ [][NextList]_vars

\* --- SpecChildren: upserts that carry ingredients and steps
\* (no request here carries a session reference or a field value)

Plain == [name |-> "n"]
WithId == [name |-> "m", id |-> UnknownId]

IngredientArrays == {<<>>, <<Plain>>, <<WithId>>, <<Plain, Plain>>}

StepArrays == {<<>>, <<[orderIndex |-> 1, instruction |-> "s"]>>}

UpsertChildrenInputs ==
    {[title |-> "t"] @@ i @@ ing @@ st :
        i \in Optional("id", {r.id : r \in recipes}),
        ing \in Optional("ingredients", IngredientArrays),
        st \in Optional("steps", StepArrays)}

NextChildren ==
    \E c \in SignedIn, i \in UpsertChildrenInputs :
        upsertGeneratedRecipe(c, i, clock)

SpecChildren == InitStore({TRUE}, {TRUE}) /\ [][NextChildren]_vars

\* --- SpecPatch: updates of one user's recipe, the optional fields varying
\* (no request here writes a reference to a missing session)

RecipeFieldSets == {{}, {"description"}, RecipeFields}

UpsertPatchInputs ==
    {[title |-> t] @@ i @@ s @@ fav @@ [k \in D |-> t] :
        t \in {"a", "b"},
        i \in Optional("id", {r.id : r \in recipes}),
        s \in Optional("sessionId", {r.id : r \in sessions}),
        fav \in Optional("isFavorite", {TRUE}),
        D \in RecipeFieldSets}

NextPatch ==
    \/ \E i \in SessionCreateInputs :
           /\ sessions = {}
           /\ createRecipeIdeaSession([user |-> "u1"], i, clock)
    \/ \E i \in UpsertPatchInputs, now \in Nows :
           /\ recipes = {} \/ Has(i, "id")
           /\ upsertGeneratedRecipe([user |-> "u1"], i, now)

SpecPatch == InitStore(BOOLEAN, {TRUE}) /\ [][NextPatch]_vars

\* --- SpecAwait: one upsert of a user suspended at its awaits while other
\* upserts of that user run, over one recipe
\* (no request here carries a session reference or a field value)

UpsertAwaitInputs ==
    {[title |-> t] @@ i @@ ing :
        t \in {"t", "u"},
        i \in Optional("id", {r.id : r \in recipes}),
        ing \in Optional("ingredients", {<<Plain>>, <<WithId>>})}

NextAwait ==
    \/ \E i \in UpsertAwaitInputs :
           /\ recipes = {} \/ Has(i, "id")
           /\ UpsertBegin([user |-> "u1"], i, clock)
    \/ UpsertAwait
    \/ UpsertAbort
    \/ \E i \in UpsertAwaitInputs :
           /\ recipes = {} \/ Has(i, "id")
           /\ upsertGeneratedRecipe([user |-> "u1"], i, clock)

SpecAwait == InitStore({TRUE}, {TRUE}) /\ [][NextAwait]_vars

\* ------------------------------------------------------------- claims

Did(op) == resp'.op = op
Done(op) == resp.op = op
ChildrenOf(T, recipeId) == {r \in T : r.recipeId = recipeId}
Ids(q) == {q[i].id : i \in DOMAIN q}
ListOps == {"listRecipeIdeaSessions", "listGeneratedRecipes"}

\* C1. Per-user isolation of the lists: every item either list returns is
\* owned by the caller; a session identifier createRecipeIdeaSession returned
\* to a user is on some page of that user's list, whatever the page size and
\* the order of equal creation times, and on no page of any other user's list.
C1_ListsAreIsolated ==
    /\ (resp.op \in ListOps /\ resp.code = "OK") =>
           \A i \in DOMAIN resp.data.items : resp.data.items[i].userId = resp.user
    /\ (Done("createRecipeIdeaSession") /\ resp.code = "OK") =>
           \E s \in sessions : s.id = resp.data.id /\ s.userId = resp.user
    /\ \A s \in sessions :
           /\ \A n \in 1..MaxPage :
                  \A q \in OrderedByCreatedAt(SessionListFilter(s.userId)) :
                      \E p \in 1..MaxPage :
                          s.id \in Ids(LimitOffset(q, n, (p - 1) * n))
           /\ \A v \in Users \ {s.userId} : \A i \in PageInputs :
                  \A items \in SessionPage(v, i) : s.id \notin Ids(items)

\* C1 witness: a user's list returned that user's session while another
\* user's session is in the table.
C1_Witness ==
    /\ Done("listRecipeIdeaSessions") /\ resp.code = "OK"
    /\ Len(resp.data.items) > 0
    /\ \E s \in sessions : s.userId # resp.user

\* C8. A request without an authenticated user fails UNAUTHORIZED, returns
\* no data and writes nothing, whichever of the five operations it is.
C8_FailsClosed ==
    [][(resp'.op # "none" /\ resp'.user = Undefined) =>
          /\ resp'.code = "UNAUTHORIZED"
          /\ ~Has(resp', "data")
          /\ UNCHANGED <<tables, nextId>>]_vars

\* C8 witness: an anonymous list request was refused while the caller-less
\* store holds recipes.
C8_Witness ==
    /\ Done("listGeneratedRecipes") /\ resp.user = Undefined
    /\ resp.code = "UNAUTHORIZED"
    /\ recipes # {} /\ sessions # {}

\* C4. updateRecipeIdeaSession with an id that names no session of the caller
\* (none at all, or another user's) fails NOT_FOUND and changes no row.
C4_UpdateNotFound ==
    [][(Did("updateRecipeIdeaSession") /\ resp'.user # Undefined
        /\ SelectOwned(sessions, resp'.input.id, resp'.user) = {}) =>
          /\ resp'.code = "NOT_FOUND"
          /\ UNCHANGED tables]_vars

\* C4 witness: an update naming another user's session was refused.
C4_Witness ==
    /\ Done("updateRecipeIdeaSession") /\ resp.code = "NOT_FOUND"
    /\ Has(resp.input, "title")
    /\ \E s \in sessions :
           s.id = resp.input.id /\ s.userId # resp.user /\ s.title # resp.input.title

\* C6. A successful updateRecipeIdeaSession changes, in the one row it
\* targets, the fields present in the input and updatedAt; absent fields, id,
\* userId and createdAt keep their values and no other row changes.
C6_PartialUpdate ==
    [][(Did("updateRecipeIdeaSession") /\ resp'.code = "OK") =>
          LET input == resp'.input
          IN \E old \in sessions : \E new \in sessions' :
                /\ old.id = input.id /\ old.userId = resp'.user
                /\ sessions' = (sessions \ {old}) \cup {new}
                /\ \A k \in SessionFields :
                       new[k] = IF Has(input, k) THEN input[k] ELSE old[k]
                /\ new.updatedAt = clock'
                /\ new.id = old.id /\ new.userId = old.userId
                /\ new.createdAt = old.createdAt
                /\ UNCHANGED <<recipes, ingredients, steps>>]_vars

\* C6 witness: an update carrying only {id, title} succeeded; the row has its
\* new title, its earlier prompt and a later updatedAt, beside another row.
C6_Witness ==
    /\ Done("updateRecipeIdeaSession") /\ resp.code = "OK"
    /\ DOMAIN resp.input = {"id", "title"}
    /\ \E s \in sessions :
           /\ s.id = resp.input.id
           /\ s.title = "b" /\ s.prompt = "a"
           /\ s.updatedAt > s.createdAt
    /\ Cardinality(sessions) > 1

\* C2 as claimed: without an id upsertGeneratedRecipe adds one recipe row
\* with a fresh identifier, owned by the caller, and returns it; with an id,
\* whatever string it is, it adds no recipe row: it updates the caller's row
\* of that id and returns the id, or fails NOT_FOUND changing nothing.
\* (Requests whose sessionId is the empty string are left to C3.)
C2_DispatchOnId ==
    [][(Did("upsertGeneratedRecipe") /\ resp'.user # Undefined
        /\ Get(resp'.input, "sessionId") # EmptyString) =>
          LET input == resp'.input
          IN IF ~Has(input, "id")
             THEN resp'.code = "OK" =>
                    \E r \in recipes' :
                        /\ recipes' = recipes \cup {r}
                        /\ \A o \in recipes : o.id # r.id
                        /\ r.id = resp'.data.id /\ r.userId = resp'.user
             ELSE /\ {r.id : r \in recipes'} = {r.id : r \in recipes}
                  /\ \/ /\ resp'.code = "OK" /\ resp'.data.id = input.id
                        /\ SelectOwned(recipes, input.id, resp'.user) # {}
                     \/ /\ resp'.code = "NOT_FOUND"
                        /\ UNCHANGED tables]_vars

\* Every session reference of a recipe names a session of its owner.
ReferencesHold ==
    \A r \in recipes :
        r.sessionId # Null =>
            \E s \in sessions : s.id = r.sessionId /\ s.userId = r.userId

\* C3 as claimed: an upsert that carries a sessionId, whatever string it is,
\* fails NOT_FOUND with nothing written unless the caller owns a session of
\* that id; and every recipe row's session reference, when set, names a
\* session of the recipe's owner.
C3_SessionReference ==
    [][/\ (Did("upsertGeneratedRecipe") /\ resp'.user # Undefined
           /\ Has(resp'.input, "sessionId")
           /\ SelectOwned(sessions, resp'.input.sessionId, resp'.user) = {}) =>
             (resp'.code = "NOT_FOUND" /\ UNCHANGED tables)
       /\ ReferencesHold']_vars

\* The rows a reference filter selects: the caller's, of the session when
\* one is provided, favorites when favoritesOnly is true.
ReferenceFilter(userId, input) ==
    {r \in recipes :
        /\ r.userId = userId
        /\ Has(input, "sessionId") => r.sessionId = input.sessionId
        /\ (Has(input, "favoritesOnly") /\ input.favoritesOnly) => r.isFavorite}

\* C7 as claimed: listGeneratedRecipes returns the rows at positions
\* (page-1)*pageSize .. page*pageSize-1 of the caller's recipes, filtered by
\* sessionId when one is provided and by isFavorite when favoritesOnly is
\* true, in creation order; total is the number of items; page and pageSize
\* are echoed.
C7_ListIsReferenceSlice ==
    (Done("listGeneratedRecipes") /\ resp.code = "OK") =>
        LET input == resp.input
            data == resp.data
        IN /\ \E q \in OrderedByCreatedAt(ReferenceFilter(resp.user, input)) :
                  data.items = LimitOffset(q, input.pageSize,
                                           (input.page - 1) * input.pageSize)
           /\ Len(data.items) <= input.pageSize
           /\ data.total = Len(data.items)
           /\ data.page = input.page /\ data.pageSize = input.pageSize

\* The identifiers in use in the store.
UsedIds ==
    {r.id : r \in sessions} \cup {r.id : r \in recipes}
        \cup {r.id : r \in ingredients} \cup {r.id : r \in steps}

\* `row`, found after the call, is the supplied element `e` of an upsert of
\* recipe `rid` at `now`: the element's id when it has one, else one no row
\* had before.
IsIngredientOf(row, e, rid, now) ==
    /\ row.recipeId = rid /\ row.createdAt = now
    /\ row.name = e.name
    /\ row.orderIndex = Column(e, "orderIndex")
    /\ row.quantity = Column(e, "quantity")
    /\ row.notes = Column(e, "notes")
    /\ IF Has(e, "id") THEN row.id = e.id
       ELSE row.id \notin UsedIds /\ row.id # EmptyString

IsStepOf(row, e, rid, now) ==
    /\ row.recipeId = rid /\ row.createdAt = now
    /\ row.instruction = e.instruction
    /\ row.orderIndex = e.orderIndex
    /\ row.tip = Column(e, "tip")
    /\ IF Has(e, "id") THEN row.id = e.id
       ELSE row.id \notin UsedIds /\ row.id # EmptyString

\* C5. After a successful upsertGeneratedRecipe run to completion, for each
\* child kind: when the input carries the array, the recipe's rows of that
\* kind are exactly its elements, one row each (none for the empty array),
\* tagged with the recipe id, with a fresh id where none was supplied; when
\* it does not, the recipe's rows are unchanged; the rows of every other
\* recipe are unchanged either way.
C5_FullReplace ==
    [][(Did("upsertGeneratedRecipe") /\ resp'.code = "OK") =>
          LET input == resp'.input
              rid == resp'.data.id
              ing == ChildrenOf(ingredients', rid)
              stp == ChildrenOf(steps', rid)
          IN /\ IF Has(input, "ingredients")
                THEN /\ Cardinality(ing) = Len(input.ingredients)
                     /\ \E f \in [DOMAIN input.ingredients -> ing] :
                            /\ \A i, j \in DOMAIN f : i # j => f[i] # f[j]
                            /\ \A i \in DOMAIN f :
                                   IsIngredientOf(f[i], input.ingredients[i],
                                                  rid, clock')
                ELSE ing = ChildrenOf(ingredients, rid)
             /\ IF Has(input, "steps")
                THEN /\ Cardinality(stp) = Len(input.steps)
                     /\ \E f \in [DOMAIN input.steps -> stp] :
                            /\ \A i, j \in DOMAIN f : i # j => f[i] # f[j]
                            /\ \A i \in DOMAIN f :
                                   IsStepOf(f[i], input.steps[i], rid, clock')
                ELSE stp = ChildrenOf(steps, rid)
             /\ ingredients' \ ing = ingredients \ ChildrenOf(ingredients, rid)
             /\ steps' \ stp = steps \ ChildrenOf(steps, rid)]_vars

\* C5 witness: an update carrying `ingredients: []` and no steps succeeded;
\* the recipe has no ingredient row left although an identifier had been
\* generated for one, and its step row is still there.
C5_Witness ==
    /\ Done("upsertGeneratedRecipe") /\ resp.code = "OK"
    /\ Has(resp.input, "id") /\ ~Has(resp.input, "steps")
    /\ Has(resp.input, "ingredients") /\ resp.input.ingredients = <<>>
    /\ ChildrenOf(ingredients, resp.input.id) = {}
    /\ ChildrenOf(steps, resp.input.id) # {}
    /\ nextId > Cardinality(recipes) + Cardinality(steps)
                  + Cardinality({r \in ingredients : r.id # UnknownId})

====
